---- MODULE Spec2Model ----
(***************************************************************************)
(* Model of stitch_transcript.py: the generator stitch() that walks, for   *)
(* every input file, the speaker segments and the items of an AWS          *)
(* Transcribe result in lockstep and yields one StitchedContent per        *)
(* speaker turn.                                                           *)
(*                                                                         *)
(* The two generators get_result_speaker_sections / get_result_item_       *)
(* sections are lazy, so the JSON document is revealed element by element: *)
(* every next() picks the next raw element of the file (or the end of the  *)
(* array).  Times are whole time units instead of floats.                  *)
(***************************************************************************)
EXTENDS Integers, Sequences, FiniteSets, TLC

\* Bounds of the explored inputs.
MaxFiles == 3      \* length of the list of input files
MaxRead  == 4      \* segments and items the run reads, over all files
MaxTime  == 1      \* largest start_time / end_time of an input element

None == -1         \* Python's None for an absent start_time / end_time

\* what next() finds when the generator is exhausted (StopIteration)
Exhausted == [exhausted |-> TRUE]

Speakers == {"spk_0", "spk_1"}
Times    == 0..MaxTime

VARIABLES
    python,                   \* major version of the interpreter (2 or 3) once a
                              \* step has depended on it, 0 before
    f,                        \* position of the for loop in files (0: not entered)
    time_offset,
    max_offset,
    speaker_section,          \* segment cursor (last value next() returned)
    item_section,             \* token cursor (last value next() returned)
    this,                     \* the object current_stitched_section refers to
                              \* (its index in heap, 0: none yet)
    heap,                     \* the StitchedContent objects created so far
    segsDone,                 \* speaker_sections has raised StopIteration
    itemsDone,                \* items_sections has raised StopIteration
    pc,                       \* "start", "loop", "except", "done", "raised"
    err,                      \* the exception that left stitch, "none" before
    emitted,                  \* the StitchedContent objects yielded so far
    segments,                 \* history: per file, the SpeakerSections read
    items,                    \* history: per file, the ItemSections read
    offsets,                  \* history: max_offset computed for each file
    rest,                     \* history: per file that reached the except clause,
                              \* which generator ended and what the file still held
    yielded,                  \* history: the objects yielded (their index in heap)
    iterations,               \* history: passes of the while loop in the current file
    outputfile,               \* what __main__ has written to the output file
    arg,                      \* argument of the function a function-level
                              \* specification applies (render, format_duration)
    result                    \* and its result

vars == <<python, f, time_offset, max_offset, speaker_section,
          item_section, this, heap, segsDone, itemsDone, pc,
          err, emitted, segments, items, offsets, rest, yielded, iterations,
          outputfile, arg, result>>

\* the variables of stitch and of __main__
progvars == <<python, f, time_offset, max_offset, speaker_section,
              item_section, this, heap, segsDone, itemsDone, pc,
              err, emitted, segments, items, offsets, rest, yielded,
              iterations, outputfile>>

----------------------------------------------------------------------------
\* Raw JSON elements

\* results.speaker_labels.segments[*]
RawSegments ==
    {o \in [speaker_label : Speakers, start_time : Times, end_time : Times] :
        o.start_time <= o.end_time}

\* results.items[*]: punctuation without times, words with both times, and
\* non-punctuation items that lack a time
RawItems ==
    {[type |-> "punctuation", start_time |-> None, end_time |-> None]}
    \cup {o \in [type : {"pronunciation"}, start_time : Times, end_time : Times] :
            o.start_time <= o.end_time}
    \cup {[type |-> "pronunciation", start_time |-> None, end_time |-> None],
          [type |-> "pronunciation", start_time |-> 0, end_time |-> None]}

\* SpeakerSection.__init__; filename is the position of the file in the
\* list of files, pos the index of the segment in its file (item_count is
\* never read and left out)
SpeakerSection(o, filename, pos) ==
    [speaker    |-> o.speaker_label,
     start_time |-> o.start_time,
     end_time   |-> o.end_time,
     filename   |-> filename,
     pos        |-> pos]

\* ItemSection.is_punctuation
is_punctuation(item) == item.item_type = "punctuation"

\* ItemSection.__init__, the fields; filename and pos tell the objects
\* apart: the file of the item and its index in the file
ItemSection(o, filename, pos) ==
    [item_type  |-> o.type,
     start_time |-> o.start_time,
     end_time   |-> o.end_time,
     filename   |-> filename,
     pos        |-> pos]

\* ItemSection.__init__, the check: TRUE iff the constructor does not raise
ItemFormatOK(o) ==
    ~ ((o.start_time = None \/ o.end_time = None) /\ o.type # "punctuation")

\* StitchedContent.__init__; at is the history of the segment that was
\* current when each item was appended
StitchedContent(speaker_label, item_sections, offset) ==
    [speaker_label |-> speaker_label,
     item_sections |-> item_sections,
     time_offset   |-> offset,
     at            |-> <<>>]

\* StitchedContent.append
append(block, item, segpos) ==
    [block EXCEPT !.item_sections = Append(@, item), !.at = Append(@, segpos)]

Max(a, b) == IF a >= b THEN a ELSE b

RECURSIVE SumLen(_)
SumLen(ss) == IF ss = <<>> THEN 0 ELSE Len(Head(ss)) + SumLen(Tail(ss))

RECURSIVE Sum(_)
Sum(s) == IF s = <<>> THEN 0 ELSE Head(s) + Sum(Tail(s))

NoSection == [pos |-> 0]

\* number of segments and items read so far
Read == SumLen(segments) + SumLen(items)

----------------------------------------------------------------------------
\* Pieces of stitch and of StitchedContent.render

\* the in-progress block: the object current_stitched_section refers to
current_stitched_section == IF this = 0 THEN NoSection ELSE heap[this]

\* StitchedContent(...) at lines 120 and 136 creates a new object
ReuseObject(h) == IF h = <<>> THEN 1 ELSE Len(h)
NewObject(h) == Len(h) + 1

\* the heap h with object a set to v
Store(h, a, v) ==
    [i \in 1..Max(Len(h), a) |-> IF i = a THEN v ELSE h[i]]

\* next() on a generator that is not exhausted moves it to the following
\* element of the array (the for loops at lines 87 and 92)
SamePos(pos) == pos
NextPos(pos) == pos + 1

\* line 113
NextOffsetLast(offset, maxo) == maxo
NextOffset(offset, maxo) == offset + maxo

\* line 124
FitsCurrentStrict(item, seg) ==
    is_punctuation(item) \/ item.end_time < seg.end_time
FitsCurrent(item, seg) ==
    is_punctuation(item) \/ item.end_time <= seg.end_time

\* line 127, the asserted condition (assertions are enabled)
StartsInsideAlways(item, seg) == TRUE
StartsInside(item, seg) == item.start_time >= seg.start_time

\* line 134
SpeakerChangedAlways(prev, new) == TRUE
SpeakerChanged(prev, new) == prev.speaker # new.speaker

\* assert_iterator_empty: TRUE iff it returns, FALSE iff it raises
AssertIteratorEmptyPass(hasNext) == TRUE
AssertIteratorEmpty(hasNext) == ~ hasNext

\* datetime.timedelta(seconds=...) of a time of ms whole milliseconds
TimeDelta(ms) ==
    [seconds      |-> (ms \div 1000) % 86400,
     microseconds |-> (ms % 1000) * 1000]

\* format_duration: the four numbers put in the "{:02d}" fields
format_duration(ms) ==
    LET td == TimeDelta(ms)
    IN  <<td.seconds, (td.seconds % 3600) % 60, td.seconds % 60,
          td.microseconds % 1000>>

\* render, lines 67-68: the two times (in seconds) the header shows
HeaderTimesFromItems(b) ==
    <<b.speaker_label.start_time + b.time_offset,
      (IF b.item_sections = <<>> \/ is_punctuation(b.item_sections[Len(b.item_sections)])
       THEN b.speaker_label.end_time
       ELSE b.item_sections[Len(b.item_sections)].end_time) + b.time_offset>>
HeaderTimes(b) ==
    <<b.speaker_label.start_time + b.time_offset,
      b.speaker_label.end_time + b.time_offset>>

\* render, lines 56-61: the body of a list of items, each an
\* [item_type, content] with the content a sequence of characters
RECURSIVE RenderContentAll(_, _)
RenderContentAll(content, its) ==
    IF its = <<>> THEN content
    ELSE RenderContentAll(
             (IF Len(content) > 0 THEN content \o <<" ">> ELSE content)
                 \o Head(its).content,
             Tail(its))
RECURSIVE RenderContent(_, _)
RenderContent(content, its) ==
    IF its = <<>> THEN content
    ELSE RenderContent(
             (IF Len(content) > 0 /\ Head(its).item_type # "punctuation"
              THEN content \o <<" ">> ELSE content) \o Head(its).content,
             Tail(its))

\* render, lines 63-74, of a block of stitch: the fields of the header and
\* the items whose contents make the body
render(b) ==
    [speaker  |-> b.speaker_label.speaker,
     filename |-> b.speaker_label.filename,
     start    |-> format_duration(1000 * HeaderTimes(b)[1]),
     end      |-> format_duration(1000 * HeaderTimes(b)[2]),
     content  |-> b.item_sections]

\* yield at lines 135 and 147: the block goes to the for loop of __main__
\* (lines 161-162), which writes it before stitch is resumed
Yield ==
    /\ emitted' = Append(emitted, current_stitched_section)
    /\ yielded' = Append(yielded, this)
    /\ outputfile' = Append(outputfile, render(current_stitched_section))

NoYield == UNCHANGED <<emitted, yielded, outputfile>>

\* an exception other than StopIteration is caught nowhere, and a
\* StopIteration outside the try block neither: it leaves stitch, and the
\* generator is finished
RaiseAndSkip(e) == pc' = "start" /\ err' = e
Raise(e) == pc' = "raised" /\ err' = e

\* the function-level specifications have not applied their function
NoCall == [called |-> FALSE]

\* stitch is called: lines 106-107, and the output file opened at line 160
Started ==
    /\ python = 0
    /\ f = 0
    /\ time_offset = 0
    /\ max_offset = 0
    /\ speaker_section = NoSection
    /\ item_section = NoSection
    /\ this = 0
    /\ heap = <<>>
    /\ segsDone = FALSE
    /\ itemsDone = FALSE
    /\ pc = "start"
    /\ err = "none"
    /\ emitted = <<>>
    /\ segments = <<>>
    /\ items = <<>>
    /\ offsets = <<>>
    /\ rest = <<>>
    /\ yielded = <<>>
    /\ iterations = 0
    /\ outputfile = <<>>

Init == Started /\ arg = NoCall /\ result = NoCall

\* lines 109-120: the for loop takes the next file (files holds at most
\* MaxFiles paths, and how many is found out here), both generators are
\* created and advanced once.  An empty array makes next() raise
\* StopIteration outside the try block.
LoadFile ==
    /\ pc = "start"
    /\ f < MaxFiles
    /\ f' = f + 1
    /\ time_offset' = NextOffset(time_offset, max_offset)
    /\ iterations' = 0
    /\ \E so \in RawSegments \cup {Exhausted}, io \in RawItems \cup {Exhausted} :
         /\ so # Exhausted => Read < MaxRead
         /\ io # Exhausted => Read + 1 < MaxRead
         /\ IF so = Exhausted
            THEN /\ Raise("StopIteration")
                 /\ segsDone' = TRUE
                 /\ itemsDone' = FALSE
                 /\ segments' = Append(segments, <<>>)
                 /\ items' = Append(items, <<>>)
                 /\ UNCHANGED <<speaker_section, item_section, this, heap>>
            ELSE /\ speaker_section' = SpeakerSection(so, f', 1)
                 /\ segsDone' = FALSE
                 /\ segments' = Append(segments, <<SpeakerSection(so, f', 1)>>)
                 /\ IF io = Exhausted
                    THEN /\ Raise("StopIteration")
                         /\ itemsDone' = TRUE
                         /\ items' = Append(items, <<>>)
                         /\ UNCHANGED <<item_section, this, heap>>
                    ELSE /\ itemsDone' = FALSE
                         /\ IF ItemFormatOK(io)
                            THEN /\ item_section' = ItemSection(io, f', 1)
                                 /\ items' = Append(items, <<ItemSection(io, f', 1)>>)
                                 /\ this' = NewObject(heap)
                                 /\ heap' = Store(heap, this',
                                      StitchedContent(speaker_section', <<>>, time_offset'))
                                 /\ pc' = "loop"
                                 /\ err' = err
                            ELSE /\ Raise("FormatError")
                                 /\ items' = Append(items, <<>>)
                                 /\ UNCHANGED <<item_section, this, heap>>
    /\ NoYield
    /\ UNCHANGED <<python, max_offset, offsets, rest, arg, result>>

\* lines 124-129: the item belongs to the current segment
SameSpeaker ==
    /\ pc = "loop"
    /\ FitsCurrent(item_section, speaker_section)
    /\ iterations' = iterations + 1
    /\ IF ~ is_punctuation(item_section)
          /\ ~ StartsInside(item_section, speaker_section)
       THEN /\ Raise("OrderingError")
            /\ UNCHANGED <<heap, item_section, itemsDone, items>>
       ELSE /\ heap' = Store(heap, this,
                 append(current_stitched_section, item_section, speaker_section.pos))
            /\ \E io \in RawItems \cup {Exhausted} :
                 /\ io # Exhausted => Read < MaxRead
                 /\ IF io = Exhausted
                    THEN /\ itemsDone' = TRUE
                         /\ pc' = "except"
                         /\ UNCHANGED <<item_section, items, err>>
                    ELSE /\ itemsDone' = FALSE
                         /\ IF ItemFormatOK(io)
                            THEN /\ item_section' = ItemSection(io, f, NextPos(item_section.pos))
                                 /\ items' = [items EXCEPT ![f] = Append(@, item_section')]
                                 /\ pc' = "loop"
                                 /\ err' = err
                            ELSE /\ Raise("FormatError")
                                 /\ UNCHANGED <<item_section, items>>
    /\ NoYield
    /\ UNCHANGED <<python, f, time_offset, max_offset, speaker_section, this,
                   segsDone, segments, offsets, rest, arg, result>>

\* lines 130-137: the item ends after the current segment, the segment
\* cursor advances; the block is yielded when the speaker changes
NewSpeaker ==
    /\ pc = "loop"
    /\ ~ FitsCurrent(item_section, speaker_section)
    /\ iterations' = iterations + 1
    /\ \E so \in RawSegments \cup {Exhausted} :
         /\ so # Exhausted => Read < MaxRead
         /\ IF so = Exhausted
            THEN /\ segsDone' = TRUE
                 /\ pc' = "except"
                 /\ NoYield
                 /\ UNCHANGED <<speaker_section, segments, this, heap>>
            ELSE /\ segsDone' = FALSE
                 /\ speaker_section' = SpeakerSection(so, f, NextPos(speaker_section.pos))
                 /\ segments' = [segments EXCEPT ![f] = Append(@, speaker_section')]
                 /\ pc' = "loop"
                 /\ IF SpeakerChanged(speaker_section, speaker_section')
                    THEN /\ Yield
                         /\ this' = NewObject(heap)
                         /\ heap' = Store(heap, this',
                              StitchedContent(speaker_section', <<>>, time_offset))
                    ELSE NoYield /\ UNCHANGED <<this, heap>>
    /\ UNCHANGED <<python, f, time_offset, max_offset, item_section,
                   itemsDone, err, items, offsets, rest, arg, result>>

\* lines 138-148: one of the generators raised StopIteration.  moreSegs and
\* moreItem are what the file still holds behind the two cursors:
\* moreItem is "none", or whether the next raw item is well formed.
EndOfFile ==
    /\ pc = "except"
    /\ \E moreSegs \in (IF segsDone THEN {FALSE} ELSE BOOLEAN),
          moreItem \in (IF itemsDone THEN {"none"} ELSE {"none", "ok", "bad"}),
          version \in (IF item_section.end_time # None \/ python # 0
                       THEN {python} ELSE {2, 3}) :
         /\ rest' = Append(rest, [first |-> IF itemsDone THEN "items" ELSE "segments",
                                   segs  |-> moreSegs,
                                   items |-> (moreItem # "none")])
         /\ python' = version
         /\ IF item_section.end_time = None /\ version = 3
            THEN \* max(float, None) raises TypeError in Python 3
                 /\ Raise("TypeError")
                 /\ NoYield
                 /\ UNCHANGED <<max_offset, offsets>>
            ELSE \* in Python 2 None is smaller than every number
                 /\ max_offset' = IF item_section.end_time = None
                                  THEN speaker_section.end_time
                                  ELSE Max(speaker_section.end_time,
                                           item_section.end_time)
                 /\ offsets' = Append(offsets, max_offset')
                 /\ IF ~ AssertIteratorEmpty(moreSegs)
                    THEN Raise("DesyncError") /\ NoYield
                    ELSE IF moreItem = "bad"
                    THEN Raise("FormatError") /\ NoYield
                    ELSE IF ~ AssertIteratorEmpty(moreItem = "ok")
                    THEN Raise("DesyncError") /\ NoYield
                    ELSE /\ Yield
                         /\ pc' = "start"
                         /\ err' = err
    /\ UNCHANGED <<f, time_offset, speaker_section, item_section, this, heap,
                   segsDone, itemsDone, segments, items, iterations, arg, result>>

\* line 109: files is exhausted, the generator returns
Return ==
    /\ pc = "start"
    /\ f >= 1
    /\ pc' = "done"
    /\ NoYield
    /\ UNCHANGED <<python, f, time_offset, max_offset, speaker_section,
                   item_section, this, heap, segsDone, itemsDone,
                   err, segments, items, offsets, rest, iterations, arg, result>>

Next == LoadFile \/ SameSpeaker \/ NewSpeaker \/ EndOfFile \/ Return

Spec == Init /\ [][Next]_vars

\* stitch is a generator driven by the for loop of __main__ (line 161),
\* which resumes it after every block until it returns or raises
FairSpec == Spec /\ WF_vars(Next)

----------------------------------------------------------------------------
\* StitchedContent.render applied to a list of items (lines 56-61)

MaxTokens == 3     \* longest list of items rendered

Contents == {<<>>, <<"a">>, <<",">>}

RenderItems == [item_type : {"punctuation", "pronunciation"}, content : Contents]

ItemLists == UNION {[1..n -> RenderItems] : n \in 0..MaxTokens}

RenderInit == Started /\ arg \in ItemLists /\ result = NoCall

RenderCall ==
    /\ ~ result.called
    /\ result' = [called |-> TRUE, value |-> RenderContent(<<>>, arg)]
    /\ UNCHANGED <<progvars, arg>>

RenderSpec == RenderInit /\ [][RenderCall]_vars

----------------------------------------------------------------------------
\* format_duration applied to a time in whole milliseconds (lines 77-83)

FormatTimes ==
    {3600000 * h + 60000 * m + 1000 * sec + ms :
        h \in {0, 1, 23}, m \in {0, 1, 59}, sec \in {0, 1, 59}, ms \in {0, 1, 999}}

FormatInit == Started /\ arg \in FormatTimes /\ result = NoCall

FormatCall ==
    /\ ~ result.called
    /\ result' = [called |-> TRUE, value |-> format_duration(arg)]
    /\ UNCHANGED <<progvars, arg>>

FormatSpec == FormatInit /\ [][FormatCall]_vars

----------------------------------------------------------------------------
\* Vocabulary of the properties

RECURSIVE Flatten(_)
Flatten(ss) == IF ss = <<>> THEN <<>> ELSE Head(ss) \o Flatten(Tail(ss))

\* the item lists of the yielded blocks, in the order of the yields
EmittedItemLists == [i \in 1..Len(emitted) |-> emitted[i].item_sections]

\* the blocks yielded for file k, in order
FileBlocks(k) == SelectSeq(emitted, LAMBDA b : b.speaker_label.filename = k)

\* the in-progress block exists
InProgress == pc \in {"loop", "except"}

\* file k has been processed to completion (its final block was yielded)
Completed(k) == k < f \/ (k = f /\ pc \in {"start", "done"})

\* the record of the except clause of the file being processed
LastRest == rest[Len(rest)]

\* number of the maximal same-speaker run that segment j of segs is in
RunOf(segs, j) ==
    1 + Cardinality({i \in 2..j : segs[i].speaker # segs[i-1].speaker})

NumRuns(segs) == IF segs = <<>> THEN 0 ELSE RunOf(segs, Len(segs))

\* the first segment of run r
FirstOfRun(segs, r) ==
    CHOOSE j \in 1..Len(segs) :
        RunOf(segs, j) = r /\ \A i \in 1..(j-1) : RunOf(segs, i) < r

\* item it is the n-th item of block b
Holds(b, n, it) == n \in 1..Len(b.item_sections) /\ b.item_sections[n] = it

\* the segment that was current when item number p of file k was appended
\* (0: the item is in no yielded block)
AtOf(k, p) ==
    LET bs == FileBlocks(k)
        where == {<<i, n>> \in (1..Len(bs)) \X (1..MaxRead + 1) :
                    Holds(bs[i], n, items[k][p])}
    IN  IF where = {} THEN 0
        ELSE LET w == CHOOSE w \in where : TRUE IN bs[w[1]].at[w[2]]

\* the segment cursor when item number p of file k was first examined
CursorAt(k, p) == IF p = 1 THEN 1 ELSE AtOf(k, p - 1)

----------------------------------------------------------------------------
\* C1. Token coverage: when stitch has run over all files without raising,
\* the items of the yielded blocks, concatenated in the order of the yields,
\* are the items of the files in file order: none dropped, none duplicated.
TokenCoverage ==
    pc = "done" => Flatten(EmittedItemLists) = Flatten(items)

\* C2 as stated: any two blocks yielded one after the other, over the whole
\* run, have different speaker labels.
AdjacentBlocksDiffer ==
    \A i \in 1..(Len(emitted) - 1) :
        emitted[i].speaker_label.speaker # emitted[i+1].speaker_label.speaker

\* C2 amended: any two blocks yielded one after the other from the same file
\* have different speaker labels.
AdjacentBlocksOfAFileDiffer ==
    \A i \in 1..(Len(emitted) - 1) :
        emitted[i].speaker_label.filename = emitted[i+1].speaker_label.filename
        => emitted[i].speaker_label.speaker # emitted[i+1].speaker_label.speaker

\* two blocks of one file have been yielded one after the other
TwoBlocksOfAFile ==
    \E i \in 1..(Len(emitted) - 1) :
        emitted[i].speaker_label.filename = emitted[i+1].speaker_label.filename

\* the segment cursor moves to the next segment of the same file
SegmentAdvance ==
    /\ pc = "loop"
    /\ pc' = "loop"
    /\ speaker_section'.filename = speaker_section.filename
    /\ speaker_section'.pos = speaker_section.pos + 1

\* every item of block b was appended under a segment of the run of
\* segments that starts with the block's attributed segment
WithinOneRun(b) ==
    LET segs == segments[b.speaker_label.filename]
    IN  \A n \in 1..Len(b.at) :
            \A j \in (b.speaker_label.pos)..(b.at[n]) :
                segs[j].speaker = b.speaker_label.speaker

\* C3. Same-speaker absorption: a move of the segment cursor to a segment
\* with the same speaker label yields nothing and keeps the in-progress
\* block; a block is yielded only by a move to a segment with a different
\* label or at the end of the file's streams; so the items of a block were
\* all appended under segments of one same-speaker run.
SameSpeakerAbsorption ==
    /\ [][ /\ (SegmentAdvance /\ speaker_section'.speaker = speaker_section.speaker)
              => /\ emitted' = emitted
                 /\ current_stitched_section' = current_stitched_section
           /\ emitted' # emitted
              => \/ SegmentAdvance /\ speaker_section'.speaker # speaker_section.speaker
                 \/ pc = "except" ]_vars
    /\ [](\A i \in 1..Len(emitted) : WithinOneRun(emitted[i]))

\* the in-progress block holds items appended under two different segments
AbsorbedTwoSegments ==
    /\ InProgress
    /\ \E n, m \in 1..Len(current_stitched_section.at) :
         current_stitched_section.at[n] # current_stitched_section.at[m]

\* C4. Partition at speaker changes: for a file processed to completion the
\* yielded blocks are the maximal same-speaker runs of its segments, in
\* order, each attributed to the speaker of its run, and every word is in
\* the block of the run of the first segment, from the cursor on, whose
\* end_time is >= the word's end_time.
PartitionAtSpeakerChanges ==
    \A k \in 1..f :
        Completed(k) =>
            LET segs == segments[k]
                bs   == FileBlocks(k)
            IN  /\ Len(bs) = NumRuns(segs)
                /\ \A r \in 1..Len(bs) :
                       bs[r].speaker_label.speaker = segs[FirstOfRun(segs, r)].speaker
                /\ \A p \in 1..Len(items[k]) :
                       ~ is_punctuation(items[k][p]) =>
                           \E j \in CursorAt(k, p)..Len(segs) :
                               /\ CursorAt(k, p) >= 1
                               /\ segs[j].end_time >= items[k][p].end_time
                               /\ \A i \in CursorAt(k, p)..(j-1) :
                                      segs[i].end_time < items[k][p].end_time
                               /\ \E n \in 1..Len(items[k]) :
                                      Holds(bs[RunOf(segs, j)], n, items[k][p])

\* C5. Offset chain: the running time_offset of file k, and the time_offset
\* of every block of file k, is the sum of the max_offset values computed
\* for the files 1..k-1, and the offsets of the yielded blocks never
\* decrease.
OffsetChain ==
    /\ f >= 1 => time_offset = Sum(SubSeq(offsets, 1, f - 1))
    /\ \A i \in 1..Len(emitted) :
           emitted[i].time_offset =
               Sum(SubSeq(offsets, 1, emitted[i].speaker_label.filename - 1))
    /\ InProgress =>
           current_stitched_section.time_offset = Sum(SubSeq(offsets, 1, f - 1))
    /\ \A i \in 1..(Len(emitted) - 1) :
           emitted[i].time_offset <= emitted[i+1].time_offset

\* a block of a later file has been yielded with a shifted time base
LaterFileShifted ==
    \E i \in 1..Len(emitted) :
        emitted[i].speaker_label.filename > 1 /\ emitted[i].time_offset > 0

\* C6. Tokens end first: when the item generator is exhausted while the file
\* holds a segment the cursor has not visited, stitch raises and the
\* in-progress block is not yielded.
TokensEndFirst ==
    [][ (pc = "except" /\ itemsDone /\ LastRest'.segs)
        => (pc' = "raised" /\ err' # "none" /\ emitted' = emitted) ]_vars

\* the except clause found an unvisited segment after the last item
RaisedOnUnvisitedSegment ==
    /\ pc = "raised"
    /\ err = "DesyncError"
    /\ itemsDone
    /\ Len(rest) = f
    /\ LastRest.segs

\* C7. Segments end first: when the segment generator is exhausted while
\* the item under the cursor (and any number of items after it) has not
\* been appended, stitch raises instead of yielding the final block.
SegmentsEndFirst ==
    [][ (pc = "except" /\ segsDone)
        => (pc' = "raised" /\ err' # "none" /\ emitted' = emitted) ]_vars

\* C8. A malformed item is detected before output: when the format error is
\* raised, no block of the file being processed has been yielded.
MalformedBeforeOutput ==
    (pc = "raised" /\ err = "FormatError") => FileBlocks(f) = <<>>

\* C9. Fail-fast: the step that raises yields nothing, and after it nothing
\* is yielded, no file is loaded and nothing more is read.
FailFast ==
    [][ /\ err' # "none" => emitted' = emitted
        /\ err # "none" => /\ f' = f
                           /\ segments' = segments
                           /\ items' = items
                           /\ err' = err ]_vars

\* stitch has raised after yielding a block, with files left in the list
RaisedWithFilesLeft ==
    /\ pc = "raised"
    /\ err \in {"FormatError", "OrderingError", "DesyncError"}
    /\ emitted # <<>>
    /\ f < MaxFiles

\* C10. File end: when the two streams of a file end together, the final
\* in-progress block is yielded and max_offset becomes the maximum of the
\* final segment's end_time and the final item's end_time (a punctuation
\* mark has none and adds nothing to the maximum).
FileEnd ==
    [][ (pc = "except" /\ ~ LastRest'.segs /\ ~ LastRest'.items)
        => /\ emitted' = Append(emitted, current_stitched_section)
           /\ max_offset' = IF item_section.end_time = None
                            THEN speaker_section.end_time
                            ELSE Max(speaker_section.end_time,
                                     item_section.end_time) ]_vars

\* the text the rule of C11 gives for item i of its
Piece(its, i) ==
    (IF its[i].item_type # "punctuation" /\ \E j \in 1..(i-1) : its[j].content # <<>>
     THEN <<" ">> ELSE <<>>) \o its[i].content

\* C11. Punctuation attachment: the body render makes of a list of items is
\* the concatenation of the contents, with one space before every
\* non-punctuation item that is not the first content of the body and no
\* space before a punctuation item.
PunctuationAttachment ==
    result.called =>
        result.value = Flatten([i \in 1..Len(arg) |-> Piece(arg, i)])

\* [word a, punctuation ",", word a] has been rendered as "a, a"
RenderedHelloWorld ==
    /\ result.called
    /\ arg = <<[item_type |-> "pronunciation", content |-> <<"a">>],
               [item_type |-> "punctuation", content |-> <<",">>],
               [item_type |-> "pronunciation", content |-> <<"a">>]>>
    /\ result.value = <<"a", ",", " ", "a">>

\* C12. Header time format: the four fields format_duration makes of a time
\* of t milliseconds are the hours, the minutes within the hour, the seconds
\* within the minute and the milliseconds within the second.
HeaderTimeFormat ==
    result.called =>
        result.value = <<arg \div 3600000, (arg \div 60000) % 60,
                         (arg \div 1000) % 60, arg % 1000>>

\* the three fatal errors of the specification
FatalErrors == {"FormatError", "OrderingError", "DesyncError"}

\* C13. No partial output on failure: when one of the three fatal errors has
\* stopped the run, no block has been written to the output file.
NoPartialOutput ==
    (pc = "raised" /\ err \in FatalErrors) => outputfile = <<>>

\* this step appends the item under the cursor to the in-progress block
Appends ==
    /\ this' = this
    /\ current_stitched_section'.item_sections =
           Append(current_stitched_section.item_sections, item_section)

\* this step calls next() on the item generator / on the segment generator
ItemCursorMoves ==
    \/ item_section'.pos = item_section.pos + 1
    \/ itemsDone'
    \/ err' = "FormatError"

SegmentCursorMoves ==
    \/ speaker_section'.pos = speaker_section.pos + 1
    \/ segsDone'

ItemCursorStays == item_section' = item_section /\ itemsDone' = itemsDone

SegmentCursorStays == speaker_section' = speaker_section /\ segsDone' = segsDone

\* the in-progress block keeps its items
NothingAppended ==
    this' = this => current_stitched_section' = current_stitched_section

\* C14 as stated: in every pass of the loop the item is appended and the
\* item cursor moves if and only if the item is punctuation or ends no later
\* than the current segment; otherwise only the segment cursor moves.
AssignmentRule ==
    [][ pc = "loop" =>
          IF is_punctuation(item_section)
             \/ item_section.end_time <= speaker_section.end_time
          THEN Appends /\ ItemCursorMoves /\ SegmentCursorStays
          ELSE NothingAppended /\ SegmentCursorMoves /\ ItemCursorStays ]_vars

\* C14 amended: the item is appended and the item cursor moves if and only
\* if the item is punctuation, or ends no later than the current segment
\* and starts no earlier than it; a word that ends no later than the
\* segment but starts before it raises and moves no cursor; otherwise only
\* the segment cursor moves.
AssignmentRuleWithOrderingCheck ==
    [][ pc = "loop" =>
          IF is_punctuation(item_section)
             \/ /\ item_section.end_time <= speaker_section.end_time
                /\ item_section.start_time >= speaker_section.start_time
          THEN Appends /\ ItemCursorMoves /\ SegmentCursorStays
          ELSE IF item_section.end_time <= speaker_section.end_time
          THEN /\ err' = "OrderingError"
               /\ NothingAppended /\ ItemCursorStays /\ SegmentCursorStays
          ELSE NothingAppended /\ SegmentCursorMoves /\ ItemCursorStays ]_vars

\* the segment under which item n of block b was appended
SegmentAt(b, n) == segments[b.speaker_label.filename][b.at[n]]

\* a word that ends exactly with its segment is in a block
TieAppended ==
    \E a \in 1..Len(heap) : \E n \in 1..Len(heap[a].item_sections) :
        /\ ~ is_punctuation(heap[a].item_sections[n])
        /\ heap[a].item_sections[n].end_time = SegmentAt(heap[a], n).end_time

\* C15. Containment: every word of every block, yielded or in progress,
\* lies within the segment that was current when it was appended; a word
\* that ends no later than the current segment but starts before it is not
\* appended and raises the ordering error.
Containment ==
    /\ [](\A a \in 1..Len(heap) : \A n \in 1..Len(heap[a].item_sections) :
            ~ is_punctuation(heap[a].item_sections[n]) =>
                /\ SegmentAt(heap[a], n).start_time <= heap[a].item_sections[n].start_time
                /\ heap[a].item_sections[n].end_time <= SegmentAt(heap[a], n).end_time)
    /\ [][ ( /\ pc = "loop"
             /\ ~ is_punctuation(item_section)
             /\ item_section.end_time <= speaker_section.end_time
             /\ item_section.start_time < speaker_section.start_time )
           => (pc' = "raised" /\ err' = "OrderingError" /\ heap' = heap) ]_vars

\* the ordering error has been raised with a word already in the block
OrderingErrorAfterWord ==
    /\ pc = "raised"
    /\ err = "OrderingError"
    /\ \E n \in 1..Len(current_stitched_section.item_sections) :
           ~ is_punctuation(current_stitched_section.item_sections[n])

\* C16. Yielded blocks are frozen: no step changes an object that has been
\* yielded, and every yielded object still is what it was when yielded.
YieldedFrozen ==
    /\ [][ \A i \in 1..Len(yielded) : heap'[yielded[i]] = heap[yielded[i]] ]_vars
    /\ [](\A i \in 1..Len(yielded) : heap[yielded[i]] = emitted[i])

\* an item has been appended to a block created after a yield
AppendedAfterYield ==
    /\ yielded # <<>>
    /\ this > yielded[Len(yielded)]
    /\ heap[this].item_sections # <<>>

\* C17. The attributed segment of every yielded block is the first segment
\* of its same-speaker run, and the times of the written header are made
\* of that segment's start_time and end_time plus the block's time_offset.
AttributedFirstOfRun ==
    \A i \in 1..Len(emitted) :
        LET b     == emitted[i]
            segs  == segments[b.speaker_label.filename]
            first == segs[FirstOfRun(segs, RunOf(segs, b.speaker_label.pos))]
        IN  /\ b.speaker_label = first
            /\ outputfile[i].start = format_duration(1000 * (first.start_time + b.time_offset))
            /\ outputfile[i].end = format_duration(1000 * (first.end_time + b.time_offset))

\* a yielded block holds a word of a later segment of its run that ends
\* after the attributed segment
AbsorbedLaterSegment ==
    \E i \in 1..Len(emitted) : \E n \in 1..Len(emitted[i].item_sections) :
        /\ emitted[i].at[n] > emitted[i].speaker_label.pos
        /\ emitted[i].item_sections[n].end_time > emitted[i].speaker_label.end_time

\* the run has ended
Ended == pc \in {"done", "raised"}

\* C18. Progress and termination: every pass of the loop that stays in the
\* loop moves exactly one cursor one element forward and leaves the other;
\* a file takes at most (segments + items read) passes; the run ends, and
\* when it ends without an error the last block yielded is of the last
\* file.
ProgressAndTermination ==
    /\ [][ (pc = "loop" /\ pc' = "loop") =>
             \/ /\ item_section'.pos = item_section.pos + 1
                /\ speaker_section' = speaker_section
                /\ segments' = segments
             \/ /\ speaker_section'.pos = speaker_section.pos + 1
                /\ item_section' = item_section
                /\ items' = items ]_vars
    /\ [](f >= 1 => iterations <= Len(segments[f]) + Len(items[f]))
    /\ [](pc = "done" =>
            /\ emitted # <<>>
            /\ emitted[Len(emitted)].speaker_label.filename = f)
    /\ <>Ended

\* the run has ended without an error after passes of the loop in two files
EndedAfterTwoFiles ==
    /\ pc = "done"
    /\ f >= 2
    /\ iterations >= 1

====
